---- MODULE Spec2Model ----
(***************************************************************************)
(* DevLake pipeline runner: content hash of a pipeline definition, the     *)
(* local step walk, the cloud dispatch, and the snapshot store             *)
(* (.devlake/data/<branch>, .devlake/versions/<hash>) of one project.      *)
(***************************************************************************)
EXTENDS Integers, Sequences, FiniteSets, TLC

(***************************************************************************)
(* Bounds of the model.                                                    *)
(***************************************************************************)
\* time.time() is read at most MaxClock times (cloud snapshot timestamps).
MaxClock == 1
\* Values a top-level key of a hashed definition ranges over (1..MaxVal).
MaxVal == 2
\* Number of digest values the model distinguishes.  hexdigest()[:8] has 16^8;
\* TLC's integers are 32-bit, so the stand-in digest is folded into fewer.
DigestRange == 16777216
\* Longest list of assertions handed to run_tests on its own.
MaxTests == 3

(***************************************************************************)
(* A pipeline definition is a Python dict: a sequence of <<key, value>>    *)
(* pairs in insertion order, with distinct keys.  Values are identifiers   *)
(* of the YAML sub-documents (the list of steps, the list of tests, ...).  *)
(***************************************************************************)
Keys(d) == {d[i][1] : i \in DOMAIN d}

HasKey(d, k) == k \in Keys(d)

\* dict[k] for a key that is present.
Get(d, k) == d[CHOOSE i \in DOMAIN d : d[i][1] = k][2]

\* Lexicographic rank of the top-level keys, the order json.dumps(sort_keys=True) uses.
KeyRank(k) ==
    CASE k = "name" -> 1
      [] k = "steps" -> 2
      [] k = "tests" -> 3
      [] k = "triggers" -> 4
      [] k = "version" -> 5

\* dict.pop(k, None) on a copy: the pairs of d without the one keyed k, order kept.
RECURSIVE Pop(_, _)
Pop(d, k) ==
    IF d = <<>> THEN <<>>
    ELSE IF Head(d)[1] = k THEN Pop(Tail(d), k)
    ELSE <<Head(d)>> \o Pop(Tail(d), k)

\* Insertion of one pair into a key-sorted sequence of pairs.
RECURSIVE InsertSorted(_, _)
InsertSorted(p, s) ==
    IF s = <<>> THEN <<p>>
    ELSE IF KeyRank(p[1]) <= KeyRank(Head(s)[1]) THEN <<p>> \o s
    ELSE <<Head(s)>> \o InsertSorted(p, Tail(s))

\* json.dumps(d, sort_keys=True): the serialisation lists the pairs by ascending key.
RECURSIVE JsonDumpsSorted(_)
JsonDumpsSorted(d) ==
    IF d = <<>> THEN <<>>
    ELSE InsertSorted(Head(d), JsonDumpsSorted(Tail(d)))


\* Stand-in for sha256 over the serialised text: a digest of the token
\* sequence, sensitive to every token and to the order of the tokens.
RECURSIVE Sha256Hex8(_, _)
Sha256Hex8(text, acc) ==
    IF text = <<>> THEN acc
    ELSE Sha256Hex8(Tail(text),
                    (acc * 31 + KeyRank(Head(text)[1]) * 7 + Head(text)[2] + 1) % DigestRange)

\* Mutant: the 'triggers' field is hashed with the rest.
generate_pipeline_hash_keeps_triggers(pipeline_config) ==
    Sha256Hex8(JsonDumpsSorted(pipeline_config), 7)

generate_pipeline_hash(pipeline_config) ==
    LET config_to_hash == Pop(pipeline_config, "triggers")
        config_json == JsonDumpsSorted(config_to_hash)
    IN  Sha256Hex8(config_json, 7)

(***************************************************************************)
(* Tables.  A Polars DataFrame is abstracted to where it came from, its    *)
(* columns, and which of them hold a null / a repeated value.              *)
(***************************************************************************)
NoDf == [origin |-> "none", cols |-> {}, nullCols |-> {}, dupCols |-> {}]

CsvTable == [origin |-> "csv", cols |-> {"id", "val"}, nullCols |-> {"val"}, dupCols |-> {}]

SqlResult == [origin |-> "sql", cols |-> {"id"}, nullCols |-> {}, dupCols |-> {"id"}]

PyResult(df) == [df EXCEPT !.origin = "python"]

\* The table run_hybrid's local load registers: {"id": [1, 2], "val": ["A", "B"]}.
LookupTable == [origin |-> "mock", cols |-> {"id", "val"}, nullCols |-> {}, dupCols |-> {}]

\* The table _mock_cloud_result_registration registers: one row pointing at the cloud result.
CloudResultPointer ==
    [origin |-> "cloud", cols |-> {"cloud_path", "record_count"}, nullCols |-> {}, dupCols |-> {}]

(***************************************************************************)
(* Steps of a pipeline: single-key maps {kind: details}.                   *)
(***************************************************************************)
\* load: csv: <url>, alias: <alias>.  readable says whether pl.read_csv(url) succeeds.
Load(readable, alias) ==
    [kind |-> "load", has_csv |-> TRUE, readable |-> readable, alias |-> alias]

\* load without a 'csv' key.
LoadOther == [kind |-> "load", has_csv |-> FALSE]

\* transform: sql: <query>, output_alias: <alias>.  The query (a SELECT, as in
\* the pipelines `devlake init` writes) is well-formed or not, and reads the
\* registered tables `reads`.
TransformSql(wellformed, reads, output_alias) ==
    [kind |-> "transform", mode |-> "sql", wellformed |-> wellformed, reads |-> reads,
     output_alias |-> output_alias]

\* transform: python: <code> [, output_alias: <alias>].  code is what exec() of it
\* does: "df" binds transformed_df to a DataFrame, "nodf" does not, "raises" raises.
TransformPy(code, has_output_alias, output_alias) ==
    [kind |-> "transform", mode |-> "python", code |-> code,
     has_output_alias |-> has_output_alias, output_alias |-> output_alias]

\* transform with neither 'sql' nor 'python'.
TransformOther == [kind |-> "transform", mode |-> "other"]

\* save: parquet: <path relative to the project>.
Save(parquet) == [kind |-> "save", parquet |-> parquet]

\* any other step kind.
Unknown == [kind |-> "export"]

\* The step with the detail target: <target>, which run_hybrid reads.
WithTarget(step, target) == [target |-> target] @@ step

\* step_details.get('target', 'local')
StepTarget(step) == IF "target" \in DOMAIN step THEN step.target ELSE "local"

\* The step lists the pipeline files of the model hold, by identifier.
StepLists ==
    <<  \* 1: the quickstart pipeline of `devlake init`
        << Load(TRUE, "t1"), TransformSql(TRUE, {"t1"}, "t2"), Save("output/t2.parquet") >>,
        \* 2: steps that fail locally, around steps that work
        << Save("output/t2.parquet"), TransformPy("df", FALSE, ""), LoadOther, Load(TRUE, "t1"),
           TransformPy("nodf", TRUE, "t3"), TransformPy("raises", TRUE, "t3"),
           TransformPy("df", FALSE, ""), TransformOther, Unknown,
           TransformSql(TRUE, {"t1"}, "t2"), Save("output/t2.parquet") >>,
        \* 3: a transform without input, then a query the backend rejects
        << TransformPy("df", TRUE, "t3"), Load(TRUE, "t1"),
           TransformSql(TRUE, {"t9"}, "t2"), Save("output/t2.parquet") >>,
        \* 4: steps: []
        << >>,
        \* 5: steps that produce no table
        << LoadOther, Save("output/t2.parquet") >>,
        \* 6: local load, remote transform, local save
        << WithTarget(Load(TRUE, "t1"), "local"),
           WithTarget(TransformSql(TRUE, {"t1"}, "t2"), "aws"),
           WithTarget(Save("output/t2.parquet"), "local") >>,
        \* 7: a remote transform that no local step precedes
        << WithTarget(TransformSql(TRUE, {"t1"}, "t2"), "aws"),
           WithTarget(Save("output/t2.parquet"), "local") >>,
        \* 8: local steps only, one of them without a target
        << WithTarget(Load(TRUE, "t1"), "local"), Load(TRUE, "t1"),
           WithTarget(TransformSql(TRUE, {"t1"}, "t2"), "local"),
           WithTarget(Save("output/t2.parquet"), "local") >>,
        \* 9: remote steps only, none of them a transform
        << WithTarget(Load(TRUE, "t1"), "aws"), WithTarget(Save("output/t2.parquet"), "gcp") >>,
        \* 10: a remote transform on an unsupported target, then one on a supported target
        << WithTarget(Load(TRUE, "t1"), "local"),
           WithTarget(TransformSql(TRUE, {"t1"}, "t2"), "onprem"),
           WithTarget(TransformPy("df", TRUE, "t3"), "gcp"),
           WithTarget(Save("output/t2.parquet"), "local") >>,
        \* 11: a local step that is not a load, then a remote transform
        << WithTarget(Save("output/t2.parquet"), "local"),
           WithTarget(TransformSql(TRUE, {"t1"}, "t2"), "azure") >>
    >>

\* tests: single-key maps {assertion kind: column}.
AssertionOf(type, column) == [type |-> type, value |-> column]

TestLists ==
    <<  <<>>,
        << AssertionOf("assert_no_null", "id"), AssertionOf("assert_unique", "id") >>,
        << AssertionOf("assert_no_null", "iso_country") >>
    >>

\* A pipeline file in the layout `devlake init` writes: name, version, triggers, steps, tests.
PipelineFile(name, triggers, steps, tests) ==
    << <<"name", name>>, <<"version", 1>>, <<"triggers", triggers>>,
       <<"steps", steps>>, <<"tests", tests>> >>

\* The pipeline files of the model.
PipelineFiles ==
    { PipelineFile(2, 1, 2, 2),
      PipelineFile(3, 1, 3, 2) }

\* A pipeline file without a 'steps' key.
NoStepsFile(name) ==
    << <<"name", name>>, <<"version", 1>>, <<"triggers", 1>>, <<"tests", 2>> >>

\* Pipeline files without steps: no 'steps' key, and steps: [].
InvalidFiles == { NoStepsFile(2), PipelineFile(2, 1, 4, 2) }

\* pipeline_config['steps'] and pipeline_config.get('tests', []).
StepsOf(config) == StepLists[Get(config, "steps")]

\* Mutant: only the presence of the 'steps' key is checked.
StepsSectionMissingKeyOnly(config) == ~HasKey(config, "steps")

\* not self.pipeline_config.get('steps')
StepsSectionMissing(config) == ~HasKey(config, "steps") \/ StepsOf(config) = <<>>

TestsOf(config) == IF HasKey(config, "tests") THEN TestLists[Get(config, "tests")] ELSE <<>>

(***************************************************************************)
(* The project's directories.                                              *)
(***************************************************************************)
Branches == {"main", "dev"}

\* A version id no pipeline of the model hashes to.
UnknownHash == 0

VersionIds == {generate_pipeline_hash(c) : c \in PipelineFiles} \cup {UnknownHash}

NoMetadata == [source |-> "", pipeline_hash |-> UnknownHash, timestamp |-> 0, output_uri |-> ""]

\* A directory: whether it exists, and its files devlake.duckdb ("none" when
\* there is no such file, "empty" for the database duckdb.connect creates: the
\* tables a run registers are views over in-memory data and are not stored in
\* it) and metadata.json (NoMetadata when there is none).
NoDir == [exists |-> FALSE, duckdb |-> "none", metadata |-> NoMetadata]

\* shutil.rmtree(path)
RmTree(dir) == NoDir

\* shutil.copytree(src, dst) for a dst that does not exist: dst becomes a copy of src.
CopyTree(src, dst) == src

\* A copy onto an existing directory that keeps the files src does not have.
MergeTree(src, dst) ==
    [exists |-> TRUE,
     duckdb |-> IF src.duckdb # "none" THEN src.duckdb ELSE dst.duckdb,
     metadata |-> IF src.metadata # NoMetadata THEN src.metadata ELSE dst.metadata]

(***************************************************************************)
(* LocalExecutor, CloudExecutor and the snapshot store, as functions of    *)
(* the directories.                                                        *)
(***************************************************************************)
\* LocalExecutor.__init__: mkdir -p data/<branch>; duckdb.connect creates
\* data/<branch>/devlake.duckdb when there is none.
LocalExecutorInit(data, branch) ==
    [data EXCEPT ![branch] =
        [@ EXCEPT !.exists = TRUE, !.duckdb = IF @ = "none" THEN "empty" ELSE @]]

\* LocalExecutor.register_dataframe: the table is registered in DuckDB and cached.
register_dataframe(data_store, name, df) == (name :> df) @@ data_store

\* executor.data_store.get(alias): NoDf stands for None.
DataStoreGet(data_store, alias) ==
    IF alias \in DOMAIN data_store THEN data_store[alias] ELSE NoDf

\* LocalExecutor.query raises iff DuckDB rejects the query: it is malformed or
\* names a table that is not registered.
QueryRejected(data_store, step) ==
    ~step.wellformed \/ ~(step.reads \subseteq DOMAIN data_store)

\* The targets CloudExecutor.config knows.
SupportedCloud == {"aws", "azure", "gcp"}

\* CloudExecutor.dispatch_job: False for an unsupported target, True otherwise.
dispatch_job(target) == target \in SupportedCloud

\* Mutant: an existing snapshot is overwritten by the branch directory.
CreateSnapshotOverwrite(vers, data, branch, data_hash) ==
    IF data[branch].exists
    THEN [vers EXCEPT ![data_hash] = CopyTree(data[branch], RmTree(@))]
    ELSE vers

\* Mutant: the version directory itself is created before the branch
\* directory is looked at.
CreateSnapshotMkdirFirst(vers, data, branch, data_hash) ==
    IF ~vers[data_hash].exists
    THEN IF data[branch].exists
         THEN [vers EXCEPT ![data_hash] = CopyTree(data[branch], @)]
         ELSE [vers EXCEPT ![data_hash] = [@ EXCEPT !.exists = TRUE]]
    ELSE vers

\* Whether _create_snapshot performs the copytree.
SnapshotCopies(vers, data, branch, data_hash) ==
    ~vers[data_hash].exists /\ data[branch].exists

\* PipelineRunner._create_snapshot: the version directories afterwards.
CreateSnapshot(vers, data, branch, data_hash) ==
    IF ~vers[data_hash].exists
    THEN IF data[branch].exists
         THEN [vers EXCEPT ![data_hash] = CopyTree(data[branch], @)]
         ELSE vers
    ELSE vers

\* The metadata record _mock_cloud_snapshot writes at time now.
CloudMetadata(data_hash, target, now) ==
    [source |-> target, pipeline_hash |-> data_hash, timestamp |-> now,
     output_uri |-> IF target = "aws" THEN "s3" ELSE "gs"]

\* PipelineRunner._mock_cloud_snapshot: mkdir -p versions/<hash>, then
\* metadata.json is (over)written there.
MockCloudSnapshot(vers, data_hash, target, now) ==
    [vers EXCEPT ![data_hash] =
        [@ EXCEPT !.exists = TRUE, !.metadata = CloudMetadata(data_hash, target, now)]]

\* Mutant: checkout without the existence check.
CheckoutUnchecked(data, vers, branch, hash_id) ==
    [data EXCEPT ![branch] = vers[hash_id]]

\* Mutant: checkout copies over the branch directory without removing it first.
CheckoutMerging(data, vers, branch, hash_id) ==
    IF ~vers[hash_id].exists THEN data
    ELSE [data EXCEPT ![branch] = IF @.exists THEN MergeTree(vers[hash_id], @)
                                  ELSE CopyTree(vers[hash_id], @)]

\* Mutant: checkout restores the snapshot into every branch directory.
CheckoutAllBranches(data, vers, branch, hash_id) ==
    IF ~vers[hash_id].exists THEN data
    ELSE [b \in Branches |-> vers[hash_id]]

\* PipelineRunner.checkout: the branch directories afterwards.
CheckoutData(data, vers, branch, hash_id) ==
    IF ~vers[hash_id].exists THEN data
    ELSE LET removed == IF data[branch].exists
                        THEN [data EXCEPT ![branch] = RmTree(@)]
                        ELSE data
         IN  [removed EXCEPT ![branch] = CopyTree(vers[hash_id], @)]

(***************************************************************************)
(* run_tests.  df[column] raises for a column the table does not have; the *)
(* exception leaves the loop and run_tests.                                *)
(***************************************************************************)
AssertionKinds == {"assert_no_null", "assert_unique"}

\* assert_no_null(df, column) / assert_unique(df, column), for a column of df.
AssertionPasses(df, test) ==
    CASE test.type = "assert_no_null" -> test.value \notin df.nullCols
      [] test.type = "assert_unique" -> test.value \notin df.dupCols
      [] OTHER -> TRUE

\* Mutant: the loop stops at the first assertion that fails.
RECURSIVE RunTestsLoopStopsAtFailure(_, _, _, _)
RunTestsLoopStopsAtFailure(df, tests, i, acc) ==
    IF i > Len(tests) \/ acc.raised \/ ~acc.test_results THEN acc
    ELSE LET test == tests[i]
         IN  IF test.type \notin AssertionKinds
             THEN RunTestsLoopStopsAtFailure(df, tests, i + 1, acc)
             ELSE IF test.value \notin df.cols
             THEN [acc EXCEPT !.raised = TRUE]
             ELSE LET result == AssertionPasses(df, test)
                  IN  RunTestsLoopStopsAtFailure(df, tests, i + 1,
                        [acc EXCEPT !.test_results = @ /\ result,
                                    !.reported = Append(@, <<i, result>>)])

\* for test in tests, from test i on.  acc: test_results, the [PASS]/[FAIL]
\* lines printed so far (position of the assertion, its result), and whether
\* an exception is propagating.
RECURSIVE RunTestsLoop(_, _, _, _)
RunTestsLoop(df, tests, i, acc) ==
    IF i > Len(tests) \/ acc.raised THEN acc
    ELSE LET test == tests[i]
         IN  IF test.type \notin AssertionKinds
             THEN RunTestsLoop(df, tests, i + 1, acc)
             ELSE IF test.value \notin df.cols
             THEN [acc EXCEPT !.raised = TRUE]
             ELSE LET result == AssertionPasses(df, test)
                  IN  RunTestsLoop(df, tests, i + 1,
                        [acc EXCEPT !.test_results = @ /\ result,
                                    !.reported = Append(@, <<i, result>>)])

\* test_results = True before the loop.
RunTestsStart == [test_results |-> TRUE, reported |-> <<>>, raised |-> FALSE]

\* run_tests(df, tests): the loop from its first test.
RunTestsOutcome(df, tests) == RunTestsLoop(df, tests, 1, RunTestsStart)

\* What the caller of run_tests sees: an exception, True or False.
run_tests(df, tests) ==
    LET done == RunTestsOutcome(df, tests)
    IN  IF done.raised THEN "raise"
        ELSE IF done.test_results THEN "pass" ELSE "fail"

(***************************************************************************)
(* PipelineRunner._execute_steps.  The walk's state: the executor's        *)
(* data_store, self.last_output_alias, last_df, the files its save steps   *)
(* wrote (path -> table), whether an exception is propagating, and the log *)
(* of the steps.                                                           *)
(***************************************************************************)
\* One log entry per step begun: what the step was, how it ended, and
\* last_output_alias, the registered aliases and last_df once it had ended.
Logged(st, op, result) ==
    Append(st.trace, [op |-> op, result |-> result, alias |-> st.last_output_alias,
                      registered |-> DOMAIN st.data_store, last_df |-> st.last_df])

\* Mutant: the step registers df and leaves last_output_alias as it was.
RegisteredWithoutAlias(st, op, alias, df) ==
    LET after == [st EXCEPT !.data_store = register_dataframe(@, alias, df),
                            !.last_df = df]
    IN  [after EXCEPT !.trace = Logged(after, op, "ok")]

\* The step registered df under alias: lines 110-112, 119-121, 138-140.
Registered(st, op, alias, df) ==
    LET after == [st EXCEPT !.data_store = register_dataframe(@, alias, df),
                            !.last_output_alias = alias,
                            !.last_df = df]
    IN  [after EXCEPT !.trace = Logged(after, op, "ok")]

\* The step ended without effect (a `continue`, or a branch that does nothing).
Skipped(st, op, result) == [st EXCEPT !.trace = Logged(st, op, result)]

\* An exception leaves the loop: no later step is executed.
Raised(st, op, result) == [st EXCEPT !.raised = TRUE, !.trace = Logged(st, op, result)]

\* load: csv
StepLoad(step, st) ==
    IF ~step.has_csv THEN Skipped(st, "load", "ok")
    ELSE IF step.readable THEN Registered(st, "load", step.alias, CsvTable)
    ELSE Raised(st, "load", "load_error")

\* transform: sql.  executor.query re-raises and nothing in _execute_steps catches it.
StepTransformSql(step, st) ==
    IF QueryRejected(st.data_store, step)
    THEN Raised(st, "transform_sql", "query_failed")
    ELSE Registered(st, "transform_sql", step.output_alias, SqlResult)

\* transform: python
StepTransformPython(step, st) ==
    LET output_alias == IF step.has_output_alias THEN step.output_alias
                        ELSE st.last_output_alias \o "_py_transformed"
        input_df == DataStoreGet(st.data_store, st.last_output_alias)
    IN  IF input_df = NoDf THEN Skipped(st, "transform_python", "missing_input")
        ELSE IF step.code = "df"
             THEN Registered(st, "transform_python", output_alias, PyResult(input_df))
        ELSE IF step.code = "nodf" THEN Skipped(st, "transform_python", "no_output")
        ELSE Skipped(st, "transform_python", "exec_error")

\* save: parquet
StepSave(step, st) ==
    LET df_to_save == DataStoreGet(st.data_store, st.last_output_alias)
    IN  IF df_to_save = NoDf THEN Skipped(st, "save", "missing_input")
        ELSE [st EXCEPT !.parquet = (step.parquet :> df_to_save) @@ @,
                        !.trace = Logged(st, "save", "ok")]

\* The body of the loop for one step.
ExecuteStep(step, st) ==
    CASE step.kind = "load" -> StepLoad(step, st)
      [] step.kind = "transform" /\ step.mode = "sql" -> StepTransformSql(step, st)
      [] step.kind = "transform" /\ step.mode = "python" -> StepTransformPython(step, st)
      [] step.kind = "transform" /\ step.mode \notin {"sql", "python"} ->
            Skipped(st, "transform", "ok")
      [] step.kind = "save" -> StepSave(step, st)
      [] OTHER -> Skipped(st, "unknown", "skipped")

\* for i, step_def in enumerate(steps), from step i on.
RECURSIVE ExecuteSteps(_, _, _)
ExecuteSteps(steps, i, st) ==
    IF i > Len(steps) \/ st.raised THEN st
    ELSE ExecuteSteps(steps, i + 1, ExecuteStep(steps[i], st))

\* The walk of a run: a fresh executor, the runner's last_output_alias.
WalkStart(alias) ==
    [data_store |-> <<>>, last_output_alias |-> alias, last_df |-> NoDf,
     parquet |-> <<>>, raised |-> FALSE, trace |-> <<>>]

(***************************************************************************)
(* HybridPipelineRunner.run_hybrid.  The walk's state: self.local_executor *)
(* (None, or a LocalExecutor that is open or closed), the branch           *)
(* directories, self.last_output_alias, the executors constructed, whether *)
(* an exception is propagating, and the log of the steps.                  *)
(***************************************************************************)
\* self.local_executor = None
NoExecutor == [state |-> "none", branch |-> "", data_store |-> <<>>]

\* One log entry per step begun: the step's kind and target, how it ended,
\* the state of the executor its register_dataframe call was made on ("" when
\* the step made none), and, once it had ended, last_output_alias, the aliases
\* registered on self.local_executor, and the executors constructed so far.
HybridLogged(st, step, result, register_on) ==
    Append(st.trace,
           [op |-> step.kind, target |-> StepTarget(step), result |-> result,
            register_on |-> register_on, alias |-> st.last_output_alias,
            registered |-> DOMAIN st.local_executor.data_store,
            local_backends |-> st.local_backends,
            remote_backends |-> st.remote_backends])

\* Mutant: a LocalExecutor is constructed for every local step.
GetLocalExecutorFresh(st, branch) ==
    [st EXCEPT !.local_executor = [state |-> "open", branch |-> branch, data_store |-> <<>>],
               !.data = LocalExecutorInit(@, branch),
               !.local_backends = @ + 1]

\* _get_executor(step_target = 'local'): self.local_executor, constructed when it is None.
GetLocalExecutor(st, branch) ==
    IF st.local_executor.state = "none"
    THEN [st EXCEPT !.local_executor = [state |-> "open", branch |-> branch,
                                        data_store |-> <<>>],
                    !.data = LocalExecutorInit(@, branch),
                    !.local_backends = @ + 1]
    ELSE st

\* _get_executor(step_target) for any other target: a new CloudExecutor.
GetCloudExecutor(st) == [st EXCEPT !.remote_backends = @ + 1]

\* self.local_executor.register_dataframe(alias, df), then self.last_output_alias = alias.
\* On None the call is an AttributeError; on a closed DuckDB connection
\* duckdb.register raises; either leaves the loop.
HybridRegister(st, step, alias, df) ==
    IF st.local_executor.state = "open"
    THEN LET after == [st EXCEPT !.local_executor.data_store = register_dataframe(@, alias, df),
                                 !.last_output_alias = alias]
         IN  [after EXCEPT !.trace = HybridLogged(after, step, "ok", "open")]
    ELSE [st EXCEPT !.raised = TRUE,
                    !.trace = HybridLogged(st, step, "raised", st.local_executor.state)]

\* A step that only prints.
HybridSkipped(st, step, result) == [st EXCEPT !.trace = HybridLogged(st, step, result, "")]

\* The body of the loop for one step.
HybridStep(step, st, branch) ==
    IF StepTarget(step) = "local"
    THEN LET got == GetLocalExecutor(st, branch)
         IN  IF step.kind = "load" THEN HybridRegister(got, step, "lookup_table", LookupTable)
             ELSE HybridSkipped(got, step, "ok")
    ELSE LET got == GetCloudExecutor(st)
         IN  IF step.kind = "transform"
             \* cloud_executor.dispatch_job(...) is called as a statement: the
             \* value it returns is not used, and the registration follows
             THEN LET success == dispatch_job(StepTarget(step))
                  IN  HybridRegister(got, step, "large_result_table", CloudResultPointer)
             ELSE HybridSkipped(got, step, "unsupported")

\* for i, step_def in enumerate(steps), from step i on.
RECURSIVE HybridSteps(_, _, _, _)
HybridSteps(steps, i, st, branch) ==
    IF i > Len(steps) \/ st.raised THEN st
    ELSE HybridSteps(steps, i + 1, HybridStep(steps[i], st, branch), branch)

\* The walk of a hybrid run: the runner's local_executor and last_output_alias.
HybridStart(executor, alias, data) ==
    [local_executor |-> executor, last_output_alias |-> alias, data |-> data,
     local_backends |-> 0, remote_backends |-> 0, raised |-> FALSE, trace |-> <<>>]

(***************************************************************************)
(* State.                                                                  *)
(***************************************************************************)
VARIABLES
    pipeline_config,    \* PipelineRunner.pipeline_config
    last_output_alias,  \* PipelineRunner.last_output_alias
    dataDirs,           \* <project>/.devlake/data/<branch>, per branch
    versions,           \* <project>/.devlake/versions/<hash>, per version id
    clock,              \* time.time()
    lastOp,             \* history: the operation that acted last, and how it ended
    runLog,             \* history: the run that acted last, if a run did
    copies,             \* history: copytree calls into versions/<hash>, per version id
    hashIn,             \* two pipeline definitions handed to generate_pipeline_hash
    hashOut,            \* the hashes returned for them, and for the first one again
    local_executor,     \* HybridPipelineRunner.local_executor
    testIn,             \* a table and a list of assertions handed to run_tests
    testOut             \* what run_tests did with them

vars == <<pipeline_config, last_output_alias, dataDirs, versions, clock,
          lastOp, runLog, copies, hashIn, hashOut, local_executor, testIn, testOut>>

hashVars == <<hashIn, hashOut>>

testVars == <<testIn, testOut>>

\* testOut before run_tests was called.
NoOutcome == <<>>

\* hashOut holds <<h>> for a hash h that was returned, NoHash before the call.
NoHash == <<>>

\* lost: a checkout removed a file of the branch that the snapshot does not hold.
Op(op, result) == [op |-> op, result |-> result, lost |-> FALSE]

\* local_backends: LocalExecutors constructed; closes: close() calls on them;
\* snapshot_step: _create_snapshot was called; trace: the log of the step walk;
\* parquet: the files the run's save steps wrote.
NoRunLog ==
    [status |-> "none", target |-> "", local_backends |-> 0, closes |-> 0,
     snapshot_step |-> FALSE, closed_after_snapshot |-> FALSE, tests |-> "none",
     trace |-> <<>>, parquet |-> <<>>]

Init ==
    /\ pipeline_config \in PipelineFiles
    /\ last_output_alias = ""
    /\ dataDirs = [b \in Branches |-> NoDir]
    /\ versions = [h \in VersionIds |-> NoDir]
    /\ clock = 0
    /\ lastOp = Op("init", "ok")
    /\ runLog = NoRunLog
    /\ copies = [h \in VersionIds |-> 0]
    /\ hashIn = << <<>>, <<>> >>
    /\ hashOut = <<NoHash, NoHash, NoHash>>
    /\ local_executor = NoExecutor
    /\ testIn = <<NoDf, <<>> >>
    /\ testOut = NoOutcome

\* PipelineRunner(pipeline_path).  The constructor raises ValueError for a file
\* without steps, and the caller keeps the runner it had; otherwise the new
\* runner replaces it.
NewRunner(config) ==
    IF StepsSectionMissing(config)
    THEN /\ lastOp' = Op("init", "definition_invalid")
         /\ runLog' = NoRunLog
         /\ UNCHANGED <<pipeline_config, last_output_alias, dataDirs, versions, clock,
                        copies, hashVars, testVars, local_executor>>
    ELSE /\ pipeline_config' = config
         /\ last_output_alias' = ""
         /\ lastOp' = Op("init", "ok")
         /\ runLog' = NoRunLog
         /\ UNCHANGED <<dataDirs, versions, clock, copies, hashVars, testVars, local_executor>>

\* runner.checkout(project, branch, hash_id)
Checkout(branch, hash_id) ==
    /\ dataDirs' = CheckoutData(dataDirs, versions, branch, hash_id)
    /\ lastOp' = [Op("checkout", IF versions[hash_id].exists THEN "ok" ELSE "version_not_found")
                  EXCEPT !.lost = versions[hash_id].exists
                                  /\ MergeTree(versions[hash_id], dataDirs[branch])
                                       # versions[hash_id]]
    /\ runLog' = NoRunLog
    /\ UNCHANGED <<pipeline_config, last_output_alias, versions, clock,
                   copies, hashVars, testVars, local_executor>>

\* runner._create_snapshot(project, branch, data_hash), called on its own with
\* the runner's hash, as run() calls it.
Snapshot(branch) ==
    LET data_hash == generate_pipeline_hash(pipeline_config)
    IN  /\ versions' = CreateSnapshot(versions, dataDirs, branch, data_hash)
        /\ copies' = [copies EXCEPT ![data_hash] =
                        IF SnapshotCopies(versions, dataDirs, branch, data_hash)
                        THEN @ + 1 ELSE @]
        /\ lastOp' = Op("create_snapshot",
                        IF versions[data_hash].exists THEN "skipped"
                        ELSE IF dataDirs[branch].exists THEN "created" ELSE "no_data")
        /\ runLog' = NoRunLog
        /\ UNCHANGED <<pipeline_config, last_output_alias, dataDirs, clock,
                       hashVars, testVars, local_executor>>

\* runner.run(project, branch, target="local")
RunLocal(branch) ==
    LET data_hash == generate_pipeline_hash(pipeline_config)
        \* executor = LocalExecutor(data_dir, branch)
        opened == LocalExecutorInit(dataDirs, branch)
        \* last_df = self._execute_steps(project_name, executor)
        walk == ExecuteSteps(StepsOf(pipeline_config), 1,
                             WalkStart(last_output_alias))
        tests == TestsOf(pipeline_config)
        verdict == IF ~walk.raised /\ walk.last_df # NoDf /\ tests # <<>>
                   THEN run_tests(walk.last_df, tests) ELSE "none"
        \* neither the walk nor run_tests raised: the snapshot and close() follow
        completed == ~walk.raised /\ verdict # "raise"
    IN  /\ dataDirs' = opened
        /\ last_output_alias' = walk.last_output_alias
        /\ versions' = IF completed THEN CreateSnapshot(versions, opened, branch, data_hash)
                       ELSE versions
        /\ copies' = [copies EXCEPT ![data_hash] =
                        IF completed /\ SnapshotCopies(versions, opened, branch, data_hash)
                        THEN @ + 1 ELSE @]
        /\ runLog' = [status |-> IF completed THEN "completed" ELSE "aborted",
                      target |-> "local", local_backends |-> 1,
                      closes |-> IF completed THEN 1 ELSE 0,
                      snapshot_step |-> completed, closed_after_snapshot |-> completed,
                      tests |-> verdict, trace |-> walk.trace, parquet |-> walk.parquet]
        /\ lastOp' = Op("run", IF completed THEN "completed" ELSE "aborted")
        /\ UNCHANGED <<pipeline_config, clock, hashVars, testVars, local_executor>>

CloudTargets == {"aws", "onprem"}

\* runner.run(project, branch, target) for a cloud target
RunCloud(branch, target) ==
    LET data_hash == generate_pipeline_hash(pipeline_config)
        success == dispatch_job(target)
    IN  /\ success => clock < MaxClock
        /\ IF success
           THEN /\ clock' = clock + 1
                /\ versions' = MockCloudSnapshot(versions, data_hash, target, clock + 1)
           ELSE UNCHANGED <<versions, clock>>
        /\ runLog' = [NoRunLog EXCEPT !.status = "completed", !.target = target]
        /\ lastOp' = Op("run_cloud", IF success THEN "ok" ELSE "unsupported_target")
        /\ UNCHANGED <<pipeline_config, last_output_alias, dataDirs,
                       copies, hashVars, testVars, local_executor>>

Next ==
    \/ \E config \in PipelineFiles \cup InvalidFiles : NewRunner(config)
    \/ \E branch \in Branches, hash_id \in VersionIds : Checkout(branch, hash_id)
    \/ \E branch \in Branches : Snapshot(branch)
    \/ \E branch \in Branches : RunLocal(branch)
    \/ \E branch \in Branches, target \in CloudTargets : RunCloud(branch, target)

Spec == Init /\ [][Next]_vars

(***************************************************************************)
(* A HybridPipelineRunner on pipelines whose steps name targets.           *)
(***************************************************************************)
HybridFiles == { PipelineFile(n, 1, n, 1) : n \in 6..11 }

HybridVersionIds == {generate_pipeline_hash(c) : c \in HybridFiles} \cup {UnknownHash}

InitHybrid ==
    /\ pipeline_config \in HybridFiles
    /\ last_output_alias = ""
    /\ dataDirs = [b \in Branches |-> NoDir]
    /\ versions = [h \in HybridVersionIds |-> NoDir]
    /\ clock = 0
    /\ lastOp = Op("init", "ok")
    /\ runLog = NoRunLog
    /\ copies = [h \in HybridVersionIds |-> 0]
    /\ hashIn = << <<>>, <<>> >>
    /\ hashOut = <<NoHash, NoHash, NoHash>>
    /\ local_executor = NoExecutor
    /\ testIn = <<NoDf, <<>> >>
    /\ testOut = NoOutcome

\* HybridPipelineRunner(pipeline_path): PipelineRunner.__init__, then
\* self.local_executor = None.
NewHybridRunner(config) ==
    IF StepsSectionMissing(config)
    THEN /\ lastOp' = Op("init", "definition_invalid")
         /\ runLog' = NoRunLog
         /\ UNCHANGED <<pipeline_config, last_output_alias, dataDirs, versions, clock,
                        copies, hashVars, testVars, local_executor>>
    ELSE /\ pipeline_config' = config
         /\ last_output_alias' = ""
         /\ local_executor' = NoExecutor
         /\ lastOp' = Op("init", "ok")
         /\ runLog' = NoRunLog
         /\ UNCHANGED <<dataDirs, versions, clock, copies, hashVars, testVars>>

\* runner.run_hybrid(project, branch)
RunHybrid(branch) ==
    LET walk == HybridSteps(StepsOf(pipeline_config), 1,
                            HybridStart(local_executor, last_output_alias, dataDirs), branch)
        \* if self.local_executor: self.local_executor.close()
        closing == ~walk.raised /\ walk.local_executor.state # "none"
    IN  /\ dataDirs' = walk.data
        /\ last_output_alias' = walk.last_output_alias
        /\ local_executor' = IF closing THEN [walk.local_executor EXCEPT !.state = "closed"]
                             ELSE walk.local_executor
        /\ runLog' = [status |-> IF walk.raised THEN "aborted" ELSE "completed",
                      target |-> "hybrid", local_backends |-> walk.local_backends,
                      closes |-> IF closing THEN 1 ELSE 0,
                      snapshot_step |-> FALSE, closed_after_snapshot |-> FALSE,
                      tests |-> "none", trace |-> walk.trace, parquet |-> <<>>]
        /\ lastOp' = Op("run_hybrid", IF walk.raised THEN "aborted" ELSE "completed")
        /\ UNCHANGED <<pipeline_config, versions, clock, copies, hashVars, testVars>>

NextHybrid ==
    \/ \E config \in HybridFiles \cup InvalidFiles : NewHybridRunner(config)
    \/ \E branch \in Branches : RunHybrid(branch)
    \/ \E branch \in Branches : RunLocal(branch)

SpecHybrid == InitHybrid /\ [][NextHybrid]_vars

(***************************************************************************)
(* A PipelineRunner on the quickstart steps, with and without tests, and   *)
(* on steps that produce no table.                                         *)
(***************************************************************************)
QuickFiles ==
    { PipelineFile(1, 1, 1, 1), PipelineFile(1, 1, 1, 2), PipelineFile(1, 1, 1, 3),
      PipelineFile(5, 1, 5, 2) }

QuickVersionIds == {generate_pipeline_hash(c) : c \in QuickFiles} \cup {UnknownHash}

InitQuick ==
    /\ pipeline_config \in QuickFiles
    /\ last_output_alias = ""
    /\ dataDirs = [b \in Branches |-> NoDir]
    /\ versions = [h \in QuickVersionIds |-> NoDir]
    /\ clock = 0
    /\ lastOp = Op("init", "ok")
    /\ runLog = NoRunLog
    /\ copies = [h \in QuickVersionIds |-> 0]
    /\ hashIn = << <<>>, <<>> >>
    /\ hashOut = <<NoHash, NoHash, NoHash>>
    /\ local_executor = NoExecutor
    /\ testIn = <<NoDf, <<>> >>
    /\ testOut = NoOutcome

NextQuick ==
    \/ \E config \in QuickFiles \cup InvalidFiles : NewRunner(config)
    \/ \E branch \in Branches, hash_id \in QuickVersionIds : Checkout(branch, hash_id)
    \/ \E branch \in Branches : RunLocal(branch)

SpecQuick == InitQuick /\ [][NextQuick]_vars

(***************************************************************************)
(* generate_pipeline_hash on its own: two definitions drawn from the       *)
(* dicts over three top-level keys, in every insertion order.              *)
(***************************************************************************)
HashKeys == {"name", "steps", "triggers"}

HashDicts ==
    { d \in UNION { [1..n -> HashKeys \X (1..MaxVal)] : n \in 0..Cardinality(HashKeys) } :
        \A i, j \in DOMAIN d : i # j => d[i][1] # d[j][1] }

InitHash ==
    /\ pipeline_config = PipelineFile(2, 1, 2, 2)
    /\ last_output_alias = ""
    /\ dataDirs = [b \in Branches |-> NoDir]
    /\ versions = [h \in VersionIds |-> NoDir]
    /\ clock = 0
    /\ lastOp = Op("init", "ok")
    /\ runLog = NoRunLog
    /\ copies = [h \in VersionIds |-> 0]
    /\ hashIn \in HashDicts \X HashDicts
    /\ hashOut = <<NoHash, NoHash, NoHash>>
    /\ local_executor = NoExecutor
    /\ testIn = <<NoDf, <<>> >>
    /\ testOut = NoOutcome

\* generate_pipeline_hash(hashIn[1])
HashFirst ==
    /\ hashOut[1] = NoHash
    /\ hashOut' = [hashOut EXCEPT ![1] = <<generate_pipeline_hash(hashIn[1])>>]
    /\ UNCHANGED <<pipeline_config, last_output_alias, dataDirs, versions, clock,
                   lastOp, runLog, copies, hashIn, testVars, local_executor>>

\* generate_pipeline_hash(hashIn[2])
HashSecond ==
    /\ hashOut[2] = NoHash
    /\ hashOut' = [hashOut EXCEPT ![2] = <<generate_pipeline_hash(hashIn[2])>>]
    /\ UNCHANGED <<pipeline_config, last_output_alias, dataDirs, versions, clock,
                   lastOp, runLog, copies, hashIn, testVars, local_executor>>

\* generate_pipeline_hash(hashIn[1]) once more
HashAgain ==
    /\ hashOut[1] # NoHash
    /\ hashOut' = [hashOut EXCEPT ![3] = <<generate_pipeline_hash(hashIn[1])>>]
    /\ UNCHANGED <<pipeline_config, last_output_alias, dataDirs, versions, clock,
                   lastOp, runLog, copies, hashIn, testVars, local_executor>>

NextHash == HashFirst \/ HashSecond \/ HashAgain

SpecHash == InitHash /\ [][NextHash]_vars

(***************************************************************************)
(* run_tests on its own: a table over two columns and a list of at most    *)
(* MaxTests assertions, of the two kinds run_tests knows and of one it     *)
(* does not, each naming one of the two columns.                           *)
(***************************************************************************)
TestColumns == {"id", "val"}

TestTables ==
    { t \in [origin : {"input"}, cols : SUBSET TestColumns,
             nullCols : SUBSET TestColumns, dupCols : SUBSET TestColumns] :
        t.nullCols \subseteq t.cols /\ t.dupCols \subseteq t.cols }

TestAssertions ==
    { AssertionOf(type, column) :
        type \in AssertionKinds \cup {"assert_positive"}, column \in TestColumns }

TestListsUpTo(n) == UNION { [1..k -> TestAssertions] : k \in 0..n }

InitTests ==
    /\ pipeline_config = PipelineFile(2, 1, 2, 2)
    /\ last_output_alias = ""
    /\ dataDirs = [b \in Branches |-> NoDir]
    /\ versions = [h \in VersionIds |-> NoDir]
    /\ clock = 0
    /\ lastOp = Op("init", "ok")
    /\ runLog = NoRunLog
    /\ copies = [h \in VersionIds |-> 0]
    /\ hashIn = << <<>>, <<>> >>
    /\ hashOut = <<NoHash, NoHash, NoHash>>
    /\ local_executor = NoExecutor
    /\ testIn \in TestTables \X TestListsUpTo(MaxTests)
    /\ testOut = NoOutcome

\* run_tests(testIn[1], testIn[2])
RunTests ==
    /\ testOut = NoOutcome
    /\ testOut' = <<RunTestsOutcome(testIn[1], testIn[2])>>
    /\ UNCHANGED <<pipeline_config, last_output_alias, dataDirs, versions, clock,
                   lastOp, runLog, copies, hashVars, local_executor, testIn>>

NextTests == RunTests

SpecTests == InitTests /\ [][NextTests]_vars

(***************************************************************************)
(* Properties.                                                             *)
(***************************************************************************)
\* d1 and d2 hold the same keys with the same values, 'triggers' and the
\* order of the keys aside.
SameButTriggersAndOrder(d1, d2) ==
    \A k \in (Keys(d1) \cup Keys(d2)) \ {"triggers"} :
        HasKey(d1, k) /\ HasKey(d2, k) /\ Get(d1, k) = Get(d2, k)

\* C1: two definitions that differ only in 'triggers' and/or in the order of
\* their keys get the same hash, and a second call on the same definition
\* returns the hash the first call returned.
C1_HashIgnoresTriggersAndKeyOrder ==
    /\ (hashOut[1] # NoHash /\ hashOut[2] # NoHash
          /\ SameButTriggersAndOrder(hashIn[1], hashIn[2]))
       => hashOut[1] = hashOut[2]
    /\ (hashOut[1] # NoHash /\ hashOut[3] # NoHash) => hashOut[3] = hashOut[1]

\* Both hashes computed, for definitions with different 'triggers' whose other
\* keys are the same but inserted in a different order.
C1_Witness ==
    /\ hashOut[1] # NoHash /\ hashOut[2] # NoHash /\ hashOut[3] # NoHash
    /\ SameButTriggersAndOrder(hashIn[1], hashIn[2])
    /\ HasKey(hashIn[1], "triggers") /\ HasKey(hashIn[2], "triggers")
    /\ Get(hashIn[1], "triggers") # Get(hashIn[2], "triggers")
    /\ Pop(hashIn[1], "triggers") # Pop(hashIn[2], "triggers")

\* The hash run() and _create_snapshot use for the runner's pipeline.
CurrentHash == generate_pipeline_hash(pipeline_config)

\* C2: _create_snapshot for a hash whose version directory exists (called on
\* its own or by a run) copies nothing and leaves every version directory as
\* it was; no version directory is the target of more than one copy.
C2_SnapshotIdempotent ==
    [][ /\ \A b \in Branches :
              ((Snapshot(b) \/ RunLocal(b)) /\ versions[CurrentHash].exists)
              => (versions' = versions /\ copies' = copies)
        /\ \A h \in VersionIds : copies'[h] <= 1 ]_vars

\* _create_snapshot skipped the copy although every branch directory exists
\* and differs from the version directory, which was copied once before.
C2_Witness ==
    /\ lastOp.op = "create_snapshot" /\ lastOp.result = "skipped"
    /\ copies[CurrentHash] = 1
    /\ \A b \in Branches : dataDirs[b].exists /\ dataDirs[b] # versions[CurrentHash]

\* C3: checkout of a hash without version directory reports version-not-found
\* and leaves every branch directory and every version directory as it was.
C3_CheckoutMissingVersionTouchesNothing ==
    [][ \A b \in Branches, h \in VersionIds :
            (Checkout(b, h) /\ ~versions[h].exists)
            => /\ lastOp'.result = "version_not_found"
               /\ dataDirs' = dataDirs
               /\ versions' = versions ]_vars

\* A checkout reported version-not-found while both branch directories hold files.
C3_Witness ==
    /\ lastOp.op = "checkout" /\ lastOp.result = "version_not_found"
    /\ \A b \in Branches : dataDirs[b].exists /\ dataDirs[b].duckdb # "none"

\* C4: after checkout of a hash with a version directory, the branch directory
\* equals that version directory, and no version directory has changed.
C4_CheckoutRestoresSnapshotExactly ==
    [][ \A b \in Branches, h \in VersionIds :
            (Checkout(b, h) /\ versions[h].exists)
            => /\ dataDirs'[b] = versions[h]
               /\ versions' = versions ]_vars

\* A checkout succeeded on a branch that held a file the snapshot does not hold.
C4_Witness ==
    /\ lastOp.op = "checkout" /\ lastOp.result = "ok" /\ lastOp.lost

\* C5: a run, a snapshot creation or a checkout for branch b leaves the
\* directory of every other branch as it was.
C5_BranchIsolation ==
    [][ \A b \in Branches :
            (\/ \E h \in VersionIds : Checkout(b, h)
             \/ Snapshot(b)
             \/ RunLocal(b)
             \/ \E t \in CloudTargets : RunCloud(b, t))
            => \A other \in Branches \ {b} : dataDirs'[other] = dataDirs[other] ]_vars

\* A checkout succeeded while the two branch directories exist and differ.
C5_Witness ==
    /\ lastOp.op = "checkout" /\ lastOp.result = "ok"
    /\ dataDirs["main"].exists /\ dataDirs["dev"].exists
    /\ dataDirs["main"] # dataDirs["dev"]

\* C6: once a version directory exists, no operation changes its contents.
C6_SnapshotsImmutable ==
    [][ \A h \in VersionIds : versions[h].exists => versions'[h] = versions[h] ]_vars

\* C7: when a local run on branch b completes, the version directory of the
\* run's hash holds the contents of b's data directory.
C7_VersionHoldsBranchStateAtCompletion ==
    [][ \A b \in Branches :
            (RunLocal(b) /\ runLog'.status = "completed")
            => versions'[CurrentHash] = dataDirs'[b] ]_vars

\* The steps of the run that acted last.
RunSteps == StepsOf(pipeline_config)

\* last_output_alias and the registered aliases are after step i what they
\* were after step i - 1 (for the first step: nothing is registered).
StepLeftRegistryAlone(i) ==
    IF i = 1 THEN runLog.trace[i].registered = {}
    ELSE /\ runLog.trace[i].registered = runLog.trace[i - 1].registered
         /\ runLog.trace[i].alias = runLog.trace[i - 1].alias

\* C8: a Transform(SQL) step whose query the backend rejects is skipped, the
\* next step is executed, and the run reaches the snapshot step.
C8_RejectedQueryIsStepLocal ==
    \A i \in DOMAIN runLog.trace :
        (runLog.trace[i].op = "transform_sql" /\ runLog.trace[i].result = "query_failed")
        => /\ StepLeftRegistryAlone(i)
           /\ (i < Len(RunSteps) => Len(runLog.trace) > i)
           /\ runLog.snapshot_step

\* C9: a Transform(code) step without input registers nothing and leaves
\* last_output_alias alone, every remaining step is executed, and the run
\* reaches the snapshot step.
C9_MissingInputIsStepLocal ==
    \A i \in DOMAIN runLog.trace :
        (runLog.trace[i].op = "transform_python" /\ runLog.trace[i].result = "missing_input")
        => /\ StepLeftRegistryAlone(i)
           /\ Len(runLog.trace) = Len(RunSteps)
           /\ runLog.snapshot_step

\* C10: a run that constructed a Local backend has released it exactly once,
\* after the snapshot step, however the run ended.
C10_BackendReleasedOnEveryExit ==
    (runLog.status \in {"completed", "aborted"} /\ runLog.local_backends > 0)
    => /\ runLog.closes = 1
       /\ runLog.closed_after_snapshot

\* The steps of the run that acted last whose target is not 'local'.
RemoteSteps == {i \in DOMAIN RunSteps : StepTarget(RunSteps[i]) # "local"}

\* The Remote backends a hybrid run had constructed when it ended.
RemoteBackends ==
    IF runLog.trace = <<>> THEN 0 ELSE runLog.trace[Len(runLog.trace)].remote_backends

\* C11: a hybrid run constructs as many Remote backends as it has steps with a
\* target other than 'local', at most one Local backend, and exactly one when
\* it has a step with target 'local'.
C11_OneLocalBackendPerHybridRun ==
    runLog.target = "hybrid"
    => /\ runLog.local_backends <= 1
       /\ (RemoteSteps # DOMAIN RunSteps => runLog.local_backends = 1)
       /\ RemoteBackends = Cardinality(RemoteSteps)

\* C12: in a hybrid run, once a Transform step with a remote target has ended,
\* the bridged alias is registered on the Local backend and last_output_alias
\* names it, wherever the step stands in the list.
C12_RemoteTransformIsBridged ==
    runLog.target = "hybrid"
    => \A i \in DOMAIN runLog.trace :
          (runLog.trace[i].op = "transform" /\ runLog.trace[i].target # "local")
          => /\ "large_result_table" \in runLog.trace[i].registered
             /\ runLog.trace[i].alias = "large_result_table"

\* C13: after a run that walked its steps to the end, by run (target local) or
\* by run_hybrid, a version directory for the run's hash exists.
C13_CompletedRunIsSnapshotted ==
    (runLog.target \in {"local", "hybrid"} /\ runLog.status = "completed")
    => versions[CurrentHash].exists

\* C20: every register_dataframe call a step of a hybrid run makes is made on
\* a Local backend that has not been closed.
C20_NoRegisterOnClosedBackend ==
    runLog.target = "hybrid"
    => \A i \in DOMAIN runLog.trace : runLog.trace[i].register_on # "closed"

\* The assertions of the list handed to run_tests that are of a kind it knows.
KnownTests == {i \in DOMAIN testIn[2] : testIn[2][i].type \in AssertionKinds}

\* C14: run_tests returns a verdict for every table and every list of
\* assertions; no exception leaves it.
C14_RunTestsNeverRaises ==
    testOut # NoOutcome => ~testOut[1].raised

\* NoNull(c) passes iff c holds no null, Unique(c) iff c holds no repeated value.
ExpectedResult(df, test) ==
    IF test.type = "assert_no_null" THEN test.value \notin df.nullCols
    ELSE test.value \notin df.dupCols

\* C15: for a table that has the columns the NoNull and Unique assertions
\* name, run_tests returns the conjunction of their results, assertions of
\* unknown kind aside, and it has evaluated every one of them, in list order,
\* whether or not an earlier one failed.
C15_VerdictIsConjunction ==
    (testOut # NoOutcome /\ \A i \in KnownTests : testIn[2][i].value \in testIn[1].cols)
    => /\ ~testOut[1].raised
       /\ testOut[1].test_results
            = (\A i \in KnownTests : ExpectedResult(testIn[1], testIn[2][i]))
       /\ Len(testOut[1].reported) = Cardinality(KnownTests)
       /\ \A j \in DOMAIN testOut[1].reported :
             /\ testOut[1].reported[j][1] \in KnownTests
             /\ testOut[1].reported[j][2]
                  = ExpectedResult(testIn[1], testIn[2][testOut[1].reported[j][1]])
             /\ \A k \in DOMAIN testOut[1].reported :
                   j < k => testOut[1].reported[j][1] < testOut[1].reported[k][1]

\* run_tests returned False for a list whose first assertion failed, whose
\* second is of unknown kind, and whose third was evaluated and passed.
C15_Witness ==
    /\ testOut # NoOutcome /\ ~testOut[1].raised /\ ~testOut[1].test_results
    /\ Len(testIn[2]) = 3
    /\ testIn[2][2].type \notin AssertionKinds
    /\ testOut[1].reported = << <<1, FALSE>>, <<3, TRUE>> >>

\* C16: constructing a runner from a definition whose 'steps' is missing or
\* empty fails with a definition-invalid error; the runner in use, the branch
\* directories and the version directories stay as they were, and no run
\* (no backend, no step) has taken place.
C16_NoStepsIsRejectedBeforeExecution ==
    [][ \A config \in InvalidFiles :
            (NewRunner(config)
               /\ (~HasKey(config, "steps") \/ Len(StepLists[Get(config, "steps")]) = 0))
            => /\ lastOp'.result = "definition_invalid"
               /\ pipeline_config' = pipeline_config
               /\ last_output_alias' = last_output_alias
               /\ dataDirs' = dataDirs
               /\ versions' = versions
               /\ runLog' = NoRunLog ]_vars

\* A constructor call was rejected while the runner in use had run and left
\* directories behind.
C16_Witness ==
    /\ lastOp.op = "init" /\ lastOp.result = "definition_invalid"
    /\ \E b \in Branches : dataDirs[b].exists
    /\ versions[CurrentHash].exists
    /\ last_output_alias # ""

\* The last entry of the step log of the run that acted last.
LastStep == runLog.trace[Len(runLog.trace)]

\* C17: a local run whose step walk ended invokes run_tests iff the walk left
\* a final table and the definition declares an assertion, and then reaches
\* the snapshot step.
C17_TestsRunIffTableAndAssertions ==
    (runLog.target = "local" /\ Len(runLog.trace) = Len(RunSteps)
       /\ LastStep.result \notin {"query_failed", "load_error"})
    => /\ (runLog.tests # "none")
            <=> (LastStep.last_df # NoDf /\ TestsOf(pipeline_config) # <<>>)
       /\ runLog.snapshot_step

\* C18: _create_snapshot for a branch without data directory and a hash
\* without version directory is not an error and creates no version
\* directory: afterwards checkout of the hash reports version-not-found, and
\* a create for the hash copies once the branch directory exists.
C18_SnapshotWithoutBranchDirRecordsNothing ==
    [][ \A b \in Branches :
            (Snapshot(b) /\ ~dataDirs[b].exists /\ ~versions[CurrentHash].exists)
            => /\ lastOp'.result = "no_data"
               /\ versions' = versions
               /\ copies' = copies
               /\ dataDirs' = dataDirs
               /\ CheckoutData(dataDirs', versions', b, CurrentHash) = dataDirs'
               /\ SnapshotCopies(versions', LocalExecutorInit(dataDirs', b), b, CurrentHash)
      ]_vars

\* _create_snapshot found no data for its branch while the other branch has a
\* data directory and another version directory exists.
C18_Witness ==
    /\ lastOp.op = "create_snapshot" /\ lastOp.result = "no_data"
    /\ \E b \in Branches : dataDirs[b].exists
    /\ \E b \in Branches : ~dataDirs[b].exists
    /\ ~versions[CurrentHash].exists
    /\ \E h \in VersionIds : versions[h].exists

\* C19: a local run of [Load(csv, alias t1), Transform(sql reading t1,
\* output_alias t2), Save(parquet)] registers t1 in its first step and nothing
\* else, t2 in its second, has last_output_alias t2 when Save runs, and Save
\* writes one file, holding the table registered under t2.
C19_QuickstartOrder ==
    (runLog.target = "local"
       /\ RunSteps = << Load(TRUE, "t1"), TransformSql(TRUE, {"t1"}, "t2"),
                        Save("output/t2.parquet") >>)
    => /\ Len(runLog.trace) = 3
       /\ runLog.trace[1].op = "load" /\ runLog.trace[1].registered = {"t1"}
       /\ runLog.trace[1].alias = "t1"
       /\ runLog.trace[2].op = "transform_sql" /\ runLog.trace[2].registered = {"t1", "t2"}
       /\ runLog.trace[2].alias = "t2"
       /\ runLog.trace[3].op = "save" /\ runLog.trace[3].result = "ok"
       /\ runLog.trace[3].alias = "t2"
       /\ runLog.trace[3].registered = {"t1", "t2"}
       /\ DOMAIN runLog.parquet = {"output/t2.parquet"}
       /\ runLog.parquet["output/t2.parquet"] = runLog.trace[2].last_df
       /\ runLog.trace[2].last_df = SqlResult

\* The quickstart steps have run to completion, the save step has written its
\* file, and the run has been snapshotted.
C19_Witness ==
    /\ runLog.target = "local" /\ runLog.status = "completed"
    /\ versions[CurrentHash].exists
    /\ RunSteps = << Load(TRUE, "t1"), TransformSql(TRUE, {"t1"}, "t2"),
                     Save("output/t2.parquet") >>
    /\ Len(runLog.trace) = 3
    /\ DOMAIN runLog.parquet = {"output/t2.parquet"}

\* C21: a remote Transform step of a hybrid run whose dispatch reported
\* failure makes no register_dataframe call, and leaves the aliases registered
\* on the Local backend and last_output_alias as the step before left them.
C21_BridgeOnlyAfterSuccessfulDispatch ==
    runLog.target = "hybrid"
    => \A i \in DOMAIN runLog.trace :
          (runLog.trace[i].op = "transform" /\ runLog.trace[i].target # "local"
             /\ ~dispatch_job(runLog.trace[i].target))
          => /\ runLog.trace[i].register_on = ""
             /\ i > 1 => /\ runLog.trace[i].registered = runLog.trace[i - 1].registered
                         /\ runLog.trace[i].alias = runLog.trace[i - 1].alias

====
